---- MODULE Spec2Model ----
(***************************************************************************)
(* Model of src/components/Map.tsx: the MapboxMap component.               *)
(*                                                                         *)
(* The component keeps one piece of React state (map), one effect with     *)
(* the dependency list [map, initializeMap], and one async function,       *)
(* initializeMap, whose closure owns a widget (initialMap).  Everything    *)
(* runs on the UI thread: an action below is one run-to-completion slice   *)
(* of JavaScript (a render with its effect, the synchronous part of        *)
(* initializeMap up to an await, one event listener), except the marker    *)
(* click listener, whose while loop is modelled one iteration per step so  *)
(* that its termination can be examined.                                   *)
(*                                                                         *)
(* Longitudes, latitudes and zoom levels are whole numbers here.           *)
(***************************************************************************)
EXTENDS Integers, Sequences, FiniteSets

VARIABLES
    map,         \* useState<Map | null>: 0 is null, n > 0 the n-th widget created
    effectDeps,  \* the value of map the effect last ran with; -1 before any run
    widgets      \* widgets[n]: the n-th mapboxgl.Map created, with its closure

vars == <<map, effectDeps, widgets>>

\* ------------------------------------------------------------------ bounds

MaxWidgets == 2
MaxLen == 3
MaxPending == 1
MaxZoom == 10

\* ------------------------------------------------------- program constants

InitialZoom == 9
InitialLongitude == 0
InitialLatitude == 51
clusterRadius == 80
clusterMaxZoom == 15
WrapThreshold == 100
WrapStep == 360

Null == 0

\* ------------------------------------------------------------ input domains

\* Records of the API response body (its establishments array).
Establishments ==
    { [BusinessName |-> "Alpha", RatingValue |-> "5",
       geocode |-> [longitude |-> 0, latitude |-> 51]],
      [BusinessName |-> "Beta", RatingValue |-> "Exempt",
       geocode |-> [longitude |-> 150, latitude |-> 52]] }

RECURSIVE SeqsUpTo(_, _)
SeqsUpTo(S, n) ==
    IF n = 0 THEN { <<>> }
    ELSE LET shorter == SeqsUpTo(S, n - 1)
         IN  shorter \cup { Append(s, x) : s \in shorter, x \in S }

\* Every response body of at most MaxLen records.
Responses == SeqsUpTo(Establishments, MaxLen)

\* The bodies used where the listeners are exercised as well: an empty list
\* and a list holding every record once.
RECURSIVE ListOf(_)
ListOf(S) ==
    IF S = {} THEN <<>>
    ELSE LET x == CHOOSE e \in S : \A o \in S : e.geocode.longitude <= o.geocode.longitude
         IN  <<x>> \o ListOf(S \ {x})

SampleResponses == { <<>>, ListOf(Establishments) }

\* Cursor longitudes of a click (e.lngLat.lng); the widget reports them
\* unwrapped, so a click on another copy of the world lies outside [-180, 180].
CursorLngs == { 100, 720 }

\* Cluster features as queryRenderedFeatures reports them for layer 'clusters'.
\* The point counts sit on the edges of the radius bands.
ClusterFeatures ==
    { [geometry |-> [type |-> "Point",
                     coordinates |-> IF n % 2 = 0 THEN <<0, 51>> ELSE <<1, 52>>],
       properties |-> [point_count |-> n]] :
         n \in { 99, 100, 749, 750 } }

\* ---------------------------------------------------------- pure functions

\* establishments.map(establishment => ({type: 'Feature', ...}))
\* Feature with the coordinate pair written latitude first.
FeatureLatitudeFirst(establishment) ==
    [type |-> "Feature",
     geometry |-> [type |-> "Point",
                   coordinates |-> <<establishment.geocode.latitude,
                                     establishment.geocode.longitude>>],
     properties |-> [title |-> establishment.BusinessName,
                     description |-> "",
                     rating |-> establishment.RatingValue]]

Feature(establishment) ==
    [type |-> "Feature",
     geometry |-> [type |-> "Point",
                   coordinates |-> <<establishment.geocode.longitude,
                                     establishment.geocode.latitude>>],
     properties |-> [title |-> establishment.BusinessName,
                     description |-> "",
                     rating |-> establishment.RatingValue]]

geoJson(establishments) ==
    [type |-> "FeatureCollection",
     features |-> [i \in 1..Len(establishments) |-> Feature(establishments[i])]]

\* 'circle-radius' of layer 'clusters':
\* ['step', ['get', 'point_count'], 20, 100, 30, 750, 40].
\* base is the output below the first stop; stops pairs <<input, output>>.
\* circleRadius with the first stop one count late.
circleRadiusLateStop ==
    [op |-> "step", get |-> "point_count", base |-> 20,
     stops |-> << <<101, 30>>, <<750, 40>> >>]

circleRadius ==
    [op |-> "step", get |-> "point_count", base |-> 20,
     stops |-> << <<100, 30>>, <<750, 40>> >>]

\* The value of a step expression: the output of the last stop whose input is
\* less than or equal to the value, the base output when there is none.
RECURSIVE StepFrom(_, _, _, _)
StepFrom(stops, i, value, out) ==
    IF i > Len(stops) THEN out
    ELSE IF value >= stops[i][1] THEN StepFrom(stops, i + 1, value, stops[i][2])
    ELSE out

EvalStep(expr, properties) ==
    StepFrom(expr.stops, 1, properties[expr.get], expr.base)

\* Math.abs
Abs(x) == IF x < 0 THEN -x ELSE x

\* while (Math.abs(e.lngLat.lng - coordinates[0]) > 100)
LoopCondition(lng, longitude) == Abs(lng - longitude) > WrapThreshold

\* LoopBody stepping by half a turn.
LoopBodyHalfTurn(lng, longitude) ==
    IF lng > longitude THEN longitude + 180 ELSE longitude - 180

\* coordinates[0] += e.lngLat.lng > coordinates[0] ? 360 : -360
LoopBody(lng, longitude) ==
    IF lng > longitude THEN longitude + WrapStep ELSE longitude - WrapStep

\* ------------------------------------------------------------------ state

Busy == \E w \in DOMAIN widgets : widgets[w].click # <<>>

\* The widget and closure right after the synchronous part of initializeMap:
\* new mapboxgl.Map({...}), addControl, on('load'), setMaxBounds, fetch(...).
\* Optional values are sequences of length 0 or 1.
NewWidget ==
    [pc |-> "awaitFetch",
     error |-> "",
     loaded |-> FALSE,
     center |-> <<InitialLongitude, InitialLatitude>>,
     zoom |-> InitialZoom,
     controls |-> { "NavigationControl" },
     maxBounds |-> << <<-8, 50>>, <<2, 59>> >>,
     handlers |-> { [type |-> "load", layer |-> "", listener |-> "onLoad"] },
     establishments |-> <<>>,
     sources |-> <<>>,
     layers |-> <<>>,
     log |-> << "new Map", "addControl", "on:load", "setMaxBounds", "fetch" >>,
     resized |-> FALSE,
     cursor |-> "",
     hover |-> "",
     cluster |-> <<>>,
     pending |-> <<>>,
     lastCallback |-> "",
     click |-> <<>>,
     popup |-> <<>>]

Init ==
    /\ map = Null
    /\ effectDeps = -1
    /\ widgets = <<>>

\* ---------------------------------------------------------- React: render

\* const initializeMap = useCallback(async () => { ... }, [])
InitializeMap ==
    /\ Len(widgets) < MaxWidgets
    /\ widgets' = Append(widgets, NewWidget)

\* The effect without a dependency list: it runs after every render.
DepsChangedNoList == TRUE

\* The dependency list [map, initializeMap]: initializeMap never changes, so
\* the effect runs on the first render and whenever map differs from the
\* value it last ran with.
DepsChanged == effectDeps # map

\* useEffect(() => { if (!map) { initializeMap() } }, [map, initializeMap])
UseEffect ==
    IF DepsChanged
    THEN /\ effectDeps' = map
         /\ IF map = Null THEN InitializeMap ELSE UNCHANGED widgets
    ELSE UNCHANGED <<effectDeps, widgets>>

\* One render of the mounted component (the first is the mount; later ones
\* follow setMap or a parent render), with the effect pass that follows it.
\* A render changes nothing unless its effect runs.
Render ==
    /\ ~Busy
    /\ UseEffect
    /\ UNCHANGED map

\* initialMap.on('load', () => { setMap(initialMap); initialMap.resize() })
Load(w) ==
    /\ w \in DOMAIN widgets
    /\ ~Busy
    /\ ~widgets[w].loaded
    /\ [type |-> "load", layer |-> "", listener |-> "onLoad"] \in widgets[w].handlers
    /\ map' = w
    /\ widgets' = [widgets EXCEPT ![w].loaded = TRUE,
                                  ![w].resized = TRUE,
                                  ![w].log = Append(@, "event:load")]
    /\ UNCHANGED effectDeps

\* ------------------------------------------------- initializeMap: the awaits

\* const response = await fetch(...): the promise resolves
FetchResolve(w) ==
    /\ w \in DOMAIN widgets
    /\ ~Busy
    /\ widgets[w].pc = "awaitFetch"
    /\ widgets' = [widgets EXCEPT ![w].pc = "awaitJson"]
    /\ UNCHANGED <<map, effectDeps>>

\* FetchReject with the rejection caught and the rest of initializeMap run on
\* an empty list.
FetchRejectCaught(w) ==
    /\ w \in DOMAIN widgets
    /\ ~Busy
    /\ widgets[w].pc = "awaitFetch"
    /\ widgets' = [widgets EXCEPT
          ![w].pc = "done",
          ![w].error = "fetch",
          ![w].sources = Append(@, [id |-> "establishments", data |-> <<>>]),
          ![w].layers = @ \o << [id |-> "clusters"], [id |-> "cluster-count"],
                                [id |-> "marker"] >>]
    /\ UNCHANGED <<map, effectDeps>>

\* await fetch(...): the promise rejects; nothing catches it
FetchReject(w) ==
    /\ w \in DOMAIN widgets
    /\ ~Busy
    /\ widgets[w].pc = "awaitFetch"
    /\ widgets' = [widgets EXCEPT ![w].pc = "threw", ![w].error = "fetch"]
    /\ UNCHANGED <<map, effectDeps>>

\* await response.json(): the body is not JSON; nothing catches it
JsonReject(w) ==
    /\ w \in DOMAIN widgets
    /\ ~Busy
    /\ widgets[w].pc = "awaitJson"
    /\ widgets' = [widgets EXCEPT ![w].pc = "threw", ![w].error = "json"]
    /\ UNCHANGED <<map, effectDeps>>

\* The body decodes but holds no establishments array: establishments.map throws.
JsonWithoutList(w) ==
    /\ w \in DOMAIN widgets
    /\ ~Busy
    /\ widgets[w].pc = "awaitJson"
    /\ widgets' = [widgets EXCEPT ![w].pc = "threw", ![w].error = "map"]
    /\ UNCHANGED <<map, effectDeps>>

\* ---------------------------------------- initializeMap: source and layers

\* initialMap.addSource('establishments', {type: 'geojson', data: geoJson, ...})
EstablishmentsSource(data) ==
    [id |-> "establishments", type |-> "geojson", data |-> data,
     cluster |-> TRUE, clusterRadius |-> clusterRadius,
     clusterMaxZoom |-> clusterMaxZoom]

\* The three addLayer calls, in the order of the code.
ClustersLayer ==
    [id |-> "clusters", type |-> "circle", source |-> "establishments",
     filter |-> "has point_count", paint |-> circleRadius]

ClusterCountLayer ==
    [id |-> "cluster-count", type |-> "symbol", source |-> "establishments",
     filter |-> "has point_count"]

MarkerLayer ==
    [id |-> "marker", type |-> "symbol", source |-> "establishments",
     filter |-> "not has point_count"]

\* The mouseleave listener registered for the layer that exists.
MouseLeaveLayerClusters == "clusters"

\* initialMap.on('mouseleave', 'cluster', ...): the layer id the listener names
MouseLeaveLayer == "cluster"

\* The four initialMap.on(type, layer, listener) calls after the layers.
LayerHandlers ==
    << [type |-> "click", layer |-> "clusters", listener |-> "clustersClick"],
       [type |-> "click", layer |-> "marker", listener |-> "markerClick"],
       [type |-> "mouseenter", layer |-> "clusters", listener |-> "setPointer"],
       [type |-> "mouseleave", layer |-> MouseLeaveLayer, listener |-> "resetCursor"] >>

RegistrationLog ==
    << "addSource:establishments",
       "addLayer:clusters", "addLayer:cluster-count", "addLayer:marker",
       "on:click:clusters", "on:click:marker",
       "on:mouseenter:clusters", "on:mouseleave:" \o MouseLeaveLayer >>

\* const { establishments } = await response.json() resolves, and the rest of
\* initializeMap runs to its end in one slice: geoJson, addSource, addLayer x3,
\* on x4.
JsonResolve(w, establishments) ==
    /\ w \in DOMAIN widgets
    /\ ~Busy
    /\ widgets[w].pc = "awaitJson"
    /\ widgets' = [widgets EXCEPT
          ![w].pc = "done",
          ![w].establishments = establishments,
          ![w].sources = Append(@, EstablishmentsSource(geoJson(establishments))),
          ![w].layers = @ \o << ClustersLayer, ClusterCountLayer, MarkerLayer >>,
          ![w].handlers = @ \cup { LayerHandlers[i] : i \in DOMAIN LayerHandlers },
          ![w].log = @ \o RegistrationLog]
    /\ UNCHANGED <<map, effectDeps>>

\* The same point reached while the widget's style is still loading (which can
\* only be before 'load'): addSource throws 'Style is not done loading' and
\* nothing catches it.
JsonResolveStyleLoading(w, establishments) ==
    /\ w \in DOMAIN widgets
    /\ ~Busy
    /\ widgets[w].pc = "awaitJson"
    /\ ~widgets[w].loaded
    /\ widgets' = [widgets EXCEPT ![w].pc = "threw", ![w].error = "addSource"]
    /\ UNCHANGED <<map, effectDeps>>

\* ------------------------------------------------------- the widget's events

HasLayer(w, id) ==
    \E i \in DOMAIN widgets[w].layers : widgets[w].layers[i].id = id

LayerById(w, id) ==
    widgets[w].layers[CHOOSE i \in DOMAIN widgets[w].layers :
                         widgets[w].layers[i].id = id]

\* A listener registered with on(type, layer, listener) runs for an event of
\* that type on a feature of that layer.
Listens(w, type, layer, listener) ==
    [type |-> type, layer |-> layer, listener |-> listener] \in widgets[w].handlers

\* The widget draws a cluster of the source in layer 'clusters', its circle
\* sized by the layer's 'circle-radius' expression.
DrawCluster(w, c) ==
    /\ w \in DOMAIN widgets
    /\ ~Busy
    /\ HasLayer(w, "clusters")
    /\ widgets' = [widgets EXCEPT ![w].cluster =
          << [feature |-> c,
              radius |-> EvalStep(LayerById(w, "clusters").paint, c.properties)] >>]
    /\ UNCHANGED <<map, effectDeps>>

\* The navigation control's zoom buttons, over the zoom levels from the
\* initial one to MaxZoom.
NavigationZoom(w, dz) ==
    /\ w \in DOMAIN widgets
    /\ ~Busy
    /\ "NavigationControl" \in widgets[w].controls
    /\ widgets[w].zoom + dz \in InitialZoom..MaxZoom
    /\ widgets' = [widgets EXCEPT ![w].zoom = @ + dz]
    /\ UNCHANGED <<map, effectDeps>>

\* initialMap.on('click', 'clusters', e => { ... }).  features is what
\* queryRenderedFeatures(e.point, {layers: ['clusters']}) returns: the cluster
\* drawn under the point, or nothing.
ClustersClick(w, features) ==
    /\ w \in DOMAIN widgets
    /\ ~Busy
    /\ HasLayer(w, "clusters")
    /\ Listens(w, "click", "clusters", "clustersClick")
    /\ widgets[w].cluster # <<>>
    /\ features \in { <<>>, << widgets[w].cluster[1].feature >> }
    /\ IF Len(features) > 0
       THEN \* getClusterExpansionZoom(clusterId, callback): the callback closes
            \* over the cluster's longitude and latitude
            /\ Len(widgets[w].pending) < MaxPending
            /\ widgets' = [widgets EXCEPT ![w].pending =
                  Append(@, features[1].geometry.coordinates)]
       ELSE UNCHANGED widgets
    /\ UNCHANGED <<map, effectDeps>>

\* easeTo given the expansion zoom the query reported.
EaseToExpansionZoom(w, lngLat, expansionZoom) ==
    [center |-> lngLat, zoom |-> expansionZoom]

\* initialMap.easeTo({center: lngLat, zoom: initialMap.getZoom() + 1})
EaseToOptions(w, lngLat, expansionZoom) ==
    [center |-> lngLat, zoom |-> widgets[w].zoom + 1]

\* The callback without its 'if (err) return'.
ExpansionZoomCallbackNoReturn(w, i, err, expansionZoom) ==
    /\ w \in DOMAIN widgets
    /\ ~Busy
    /\ i \in DOMAIN widgets[w].pending
    /\ widgets[w].zoom + 1 <= MaxZoom
    /\ widgets' = [widgets EXCEPT
          ![w].pending = SubSeq(@, 1, i - 1) \o SubSeq(@, i + 1, Len(@)),
          ![w].lastCallback = IF err THEN "error" ELSE "ok",
          ![w].center = widgets[w].pending[i],
          ![w].zoom = @ + 1]
    /\ UNCHANGED <<map, effectDeps>>

\* The callback of the i-th outstanding getClusterExpansionZoom query:
\* (err) => { const lngLat = ...; if (err) return; initialMap.easeTo({...}) }.
\* expansionZoom is the second argument the widget passes; the callback does
\* not take it.
ExpansionZoomCallback(w, i, err, expansionZoom) ==
    /\ w \in DOMAIN widgets
    /\ ~Busy
    /\ i \in DOMAIN widgets[w].pending
    /\ LET lngLat == widgets[w].pending[i]
           rest == [j \in 1..(Len(widgets[w].pending) - 1) |->
                      IF j < i THEN widgets[w].pending[j]
                      ELSE widgets[w].pending[j + 1]]
           options == EaseToOptions(w, lngLat, expansionZoom)
       IN  IF err
           THEN widgets' = [widgets EXCEPT ![w].pending = rest,
                                          ![w].lastCallback = "error"]
           ELSE /\ options.zoom <= MaxZoom
                /\ widgets' = [widgets EXCEPT ![w].pending = rest,
                                              ![w].lastCallback = "ok",
                                              ![w].center = options.center,
                                              ![w].zoom = options.zoom]
    /\ UNCHANGED <<map, effectDeps>>

\* The features source 'establishments' of the widget holds.
FeaturesOf(w) ==
    IF widgets[w].sources = <<>> THEN {}
    ELSE { widgets[w].sources[1].data.features[i] :
             i \in DOMAIN widgets[w].sources[1].data.features }

\* initialMap.on('click', 'marker', e => { ... }) up to the while loop.
\* features is e.features (empty: undefined); lng is e.lngLat.lng.
MarkerClick(w, features, lng) ==
    /\ w \in DOMAIN widgets
    /\ ~Busy
    /\ HasLayer(w, "marker")
    /\ Listens(w, "click", "marker", "markerClick")
    /\ \A i \in DOMAIN features : features[i] \in FeaturesOf(w)
    /\ IF features # <<>>
       THEN widgets' = [widgets EXCEPT ![w].click =
              << [lng |-> lng,
                  feature |-> features[1],
                  coordinates |-> features[1].geometry.coordinates] >>]
       ELSE UNCHANGED widgets
    /\ UNCHANGED <<map, effectDeps>>

\* One iteration of the while loop of the marker click listener.
MarkerLoop(w) ==
    /\ w \in DOMAIN widgets
    /\ widgets[w].click # <<>>
    /\ LET c == widgets[w].click[1]
       IN  /\ LoopCondition(c.lng, c.coordinates[1])
           /\ widgets' = [widgets EXCEPT ![w].click[1].coordinates[1] =
                 LoopBody(c.lng, c.coordinates[1])]
    /\ UNCHANGED <<map, effectDeps>>

\* The loop has ended: new mapboxgl.Popup(...).setLngLat(...).setHTML(...).addTo
MarkerPopup(w) ==
    /\ w \in DOMAIN widgets
    /\ widgets[w].click # <<>>
    /\ LET c == widgets[w].click[1]
       IN  /\ ~LoopCondition(c.lng, c.coordinates[1])
           /\ widgets' = [widgets EXCEPT
                 ![w].click = <<>>,
                 ![w].popup = << [lngLat |-> c.coordinates,
                                  title |-> c.feature.properties.title,
                                  description |-> c.feature.properties.description,
                                  rating |-> c.feature.properties.rating] >>]
    /\ UNCHANGED <<map, effectDeps>>

\* The cursor after the listeners of (type, layer) have run.
CursorAfter(w, type, layer) ==
    IF Listens(w, type, layer, "setPointer") THEN "pointer"
    ELSE IF Listens(w, type, layer, "resetCursor") THEN ""
    ELSE widgets[w].cursor

\* The pointer moves onto a feature of a layer of the map.
MouseEnter(w, layer) ==
    /\ w \in DOMAIN widgets
    /\ ~Busy
    /\ HasLayer(w, layer)
    /\ \E h \in widgets[w].handlers :
         h.layer = layer /\ h.type \in { "mouseenter", "mouseleave" }
    /\ widgets[w].hover # layer
    /\ widgets' = [widgets EXCEPT ![w].hover = layer,
                                  ![w].cursor = CursorAfter(w, "mouseenter", layer)]
    /\ UNCHANGED <<map, effectDeps>>

\* The pointer moves off the features of the layer it was on.
MouseLeave(w, layer) ==
    /\ w \in DOMAIN widgets
    /\ ~Busy
    /\ HasLayer(w, layer)
    /\ \E h \in widgets[w].handlers :
         h.layer = layer /\ h.type \in { "mouseenter", "mouseleave" }
    /\ widgets[w].hover = layer
    /\ widgets' = [widgets EXCEPT ![w].hover = "",
                                  ![w].cursor = CursorAfter(w, "mouseleave", layer)]
    /\ UNCHANGED <<map, effectDeps>>

\* ---------------------------------------------------------- specification

\* The layers the mouseenter and mouseleave listeners are registered for: the
\* widget raises these two events only for such a layer.
MouseLayers ==
    { LayerHandlers[i].layer :
        i \in { j \in DOMAIN LayerHandlers :
                  LayerHandlers[j].type \in { "mouseenter", "mouseleave" } } }

\* The features a source can hold.
SourceFeatures == { Feature(e) : e \in Establishments }

\* The widgets a step may concern; an action is enabled only for one that exists.
Widgets == 1..MaxWidgets

Next ==
    \/ Render
    \/ \E w \in Widgets : Load(w)
    \/ \E w \in Widgets : FetchResolve(w)
    \/ \E w \in Widgets : FetchReject(w)
    \/ \E w \in Widgets : JsonReject(w)
    \/ \E w \in Widgets : JsonWithoutList(w)
    \/ \E w \in Widgets, establishments \in SampleResponses :
         JsonResolve(w, establishments)
    \/ \E w \in Widgets, establishments \in SampleResponses :
         JsonResolveStyleLoading(w, establishments)
    \/ \E w \in Widgets, c \in ClusterFeatures : DrawCluster(w, c)
    \/ \E w \in Widgets, dz \in { -1, 1 } : NavigationZoom(w, dz)
    \/ \E w \in Widgets, features \in { <<>> } \cup { <<c>> : c \in ClusterFeatures } :
         ClustersClick(w, features)
    \/ \E w \in Widgets, i \in 1..MaxPending, err \in BOOLEAN,
          expansionZoom \in { 10, 14 } :
         ExpansionZoomCallback(w, i, err, expansionZoom)
    \/ \E w \in Widgets, f \in SourceFeatures, lng \in CursorLngs :
         MarkerClick(w, <<f>>, lng)
    \/ \E w \in Widgets, lng \in CursorLngs : MarkerClick(w, <<>>, lng)
    \/ \E w \in Widgets : MarkerLoop(w)
    \/ \E w \in Widgets : MarkerPopup(w)
    \/ \E w \in Widgets, layer \in MouseLayers : MouseEnter(w, layer)
    \/ \E w \in Widgets, layer \in MouseLayers : MouseLeave(w, layer)

Spec == Init /\ [][Next]_vars

\* The UI thread keeps running the listener it is in: a loop iteration that
\* can run does run, and so does the code after the loop.
MarkerListenerStep ==
    \E w \in Widgets : MarkerLoop(w) \/ MarkerPopup(w)

FairSpec == Spec /\ WF_vars(MarkerListenerStep)

\* The mount and the initialization alone, over every response body, with the
\* navigation control the widget has from its creation.
NextLoad ==
    \/ Render
    \/ \E w \in Widgets : Load(w)
    \/ \E w \in Widgets : FetchResolve(w)
    \/ \E w \in Widgets : FetchReject(w)
    \/ \E w \in Widgets : JsonReject(w)
    \/ \E w \in Widgets : JsonWithoutList(w)
    \/ \E w \in Widgets, establishments \in Responses :
         JsonResolve(w, establishments)
    \/ \E w \in Widgets, establishments \in Responses :
         JsonResolveStyleLoading(w, establishments)
    \/ \E w \in Widgets, dz \in { -1, 1 } : NavigationZoom(w, dz)

LoadSpec == Init /\ [][NextLoad]_vars

\* ------------------------------------------------------------------ claims

LoadHandler == [type |-> "load", layer |-> "", listener |-> "onLoad"]

\* Removing the i-th entry of a sequence.
Without(q, i) == SubSeq(q, 1, i - 1) \o SubSeq(q, i + 1, Len(q))

\* C1: for one mounted view, whatever renders and 'load' events occur, at most
\* one widget is ever created, and the stored map, once set, is that widget.
C1_OneWidget ==
    /\ Len(widgets) <= 1
    /\ map # Null => (Len(widgets) = 1 /\ map = 1)
    /\ effectDeps # -1 => Len(widgets) = 1

\* C1 witness: 'load' has stored the widget and the effect has run again with
\* the stored map, and there is still one widget.
C1_Witness ==
    /\ map # Null
    /\ effectDeps = map
    /\ Len(widgets) = 1

\* C2: once the fetch or the JSON decode has thrown, the widget keeps its
\* navigation control, max bounds and load handler, and in every later state
\* has no source, no layer and no other handler; initialization is not retried.
C2_FetchAbort ==
    /\ [](\A w \in DOMAIN widgets :
            widgets[w].error \in { "fetch", "json" } =>
              /\ widgets[w].pc = "threw"
              /\ widgets[w].controls = { "NavigationControl" }
              /\ widgets[w].maxBounds = << <<-8, 50>>, <<2, 59>> >>
              /\ widgets[w].handlers = { LoadHandler }
              /\ widgets[w].sources = <<>>
              /\ widgets[w].layers = <<>>
              /\ Len(widgets) = 1)
    /\ [][\A w \in DOMAIN widgets :
            widgets[w].error \in { "fetch", "json" } =>
              /\ w \in DOMAIN widgets'
              /\ widgets'[w].error = widgets[w].error]_vars

\* C2 witness: the fetch has thrown, and afterwards the widget has loaded and
\* its navigation control has zoomed the view.
C2_Witness ==
    \E w \in DOMAIN widgets :
        /\ widgets[w].error = "fetch"
        /\ widgets[w].loaded
        /\ widgets[w].zoom # InitialZoom

\* C3: the feature collection handed to addSource has one feature per record
\* of the response, in the same order, each a Point at [longitude, latitude]
\* with title = BusinessName, rating = RatingValue and description = ''.
C3_FeaturePerRecord ==
    \A w \in DOMAIN widgets :
        widgets[w].sources # <<>> =>
          LET records == widgets[w].establishments
              features == widgets[w].sources[1].data.features
          IN  /\ widgets[w].sources[1].data.type = "FeatureCollection"
              /\ Len(features) = Len(records)
              /\ \A i \in 1..Len(records) :
                    /\ features[i].type = "Feature"
                    /\ features[i].geometry.type = "Point"
                    /\ features[i].geometry.coordinates[1] = records[i].geocode.longitude
                    /\ features[i].geometry.coordinates[2] = records[i].geocode.latitude
                    /\ Len(features[i].geometry.coordinates) = 2
                    /\ features[i].properties.title = records[i].BusinessName
                    /\ features[i].properties.rating = records[i].RatingValue
                    /\ features[i].properties.description = ""

\* C3 witness: a source registered from a response of at least two records
\* that differ.
C3_Witness ==
    \E w \in DOMAIN widgets :
        /\ widgets[w].sources # <<>>
        /\ Len(widgets[w].establishments) >= 2
        /\ widgets[w].establishments[1] # widgets[w].establishments[2]

\* C4: when the marker click listener places its popup, the popup's longitude
\* is within 100 of the cursor longitude and differs from the feature's
\* longitude by a multiple of 360, and its latitude is the feature's.
C4_PopupLongitude ==
    [][\A w \in DOMAIN widgets :
         (widgets[w].click # <<>> /\ widgets'[w].click = <<>>) =>
           LET c == widgets[w].click[1]
               from == c.feature.geometry.coordinates
               at == widgets'[w].popup[1].lngLat
           IN  /\ Abs(at[1] - c.lng) <= 100
               /\ (at[1] - from[1]) % 360 = 0
               /\ at[2] = from[2]]_vars

\* C4 witness: a popup placed two turns away from its feature's longitude.
C4_Witness ==
    \E w \in DOMAIN widgets :
        /\ widgets[w].popup # <<>>
        /\ widgets[w].popup[1].lngLat = <<720, 51>>
        /\ widgets[w].popup[1].title = "Alpha"

\* C5: a click on 'clusters' that finds a cluster feature issues exactly one
\* expansion-zoom query, and a query answered without error eases the view to
\* that cluster's coordinate at the zoom current at that moment plus one,
\* whatever expansion zoom was reported.
C5_ClusterClickEases ==
    [][\A w \in DOMAIN widgets :
         LET old == widgets[w]
             new == widgets'[w]
         IN  /\ \A c \in ClusterFeatures :
                   ClustersClick(w, <<c>>) =>
                     new.pending = Append(old.pending, c.geometry.coordinates)
             /\ Len(new.pending) > Len(old.pending) =>
                   /\ old.cluster # <<>>
                   /\ new.pending =
                        Append(old.pending, old.cluster[1].feature.geometry.coordinates)
             /\ (Len(new.pending) < Len(old.pending) /\ new.lastCallback = "ok") =>
                   \E i \in DOMAIN old.pending :
                       /\ new.pending = Without(old.pending, i)
                       /\ new.center = old.pending[i]
                       /\ new.zoom = old.zoom + 1]_vars

\* C5 witness: a query answered without error has moved the view to the
\* cluster at <<1, 52>>, one level above the initial zoom.
C5_Witness ==
    \E w \in DOMAIN widgets :
        /\ widgets[w].lastCallback = "ok"
        /\ widgets[w].center = <<1, 52>>
        /\ widgets[w].zoom = InitialZoom + 1

\* C6: a drawn cluster's circle radius is 20 below 100 points, 30 from 100 to
\* 749, and 40 from 750 on.
C6_RadiusBands ==
    \A w \in DOMAIN widgets :
        widgets[w].cluster # <<>> =>
          LET n == widgets[w].cluster[1].feature.properties.point_count
          IN  widgets[w].cluster[1].radius =
                IF n < 100 THEN 20 ELSE IF n < 750 THEN 30 ELSE 40

\* C6 witness: a cluster of exactly 100 points is drawn with radius 30.
C6_Witness ==
    \E w \in DOMAIN widgets :
        /\ widgets[w].cluster # <<>>
        /\ widgets[w].cluster[1].feature.properties.point_count = 100
        /\ widgets[w].cluster[1].radius = 30

\* The calls of initializeMap that deal with the establishments.
DataCalls ==
    { "fetch" } \cup { RegistrationLog[i] : i \in DOMAIN RegistrationLog }

\* C7: the fetch, addSource, the three addLayer calls and the handler
\* attachments all come after the widget's 'load' event, in that order.
C7_AfterLoadInOrder ==
    \A w \in DOMAIN widgets :
        LET log == widgets[w].log
            calls == SelectSeq(log, LAMBDA x : x \in DataCalls)
        IN  /\ \A i \in DOMAIN log :
                  log[i] \in DataCalls => \E j \in 1..(i - 1) : log[j] = "event:load"
            /\ \A i \in DOMAIN calls : calls[i] = (<<"fetch">> \o RegistrationLog)[i]

C9_SilentNoOp ==
    [][\A w \in DOMAIN widgets :
         LET old == widgets[w]
             new == widgets'[w]
         IN  /\ (Len(new.pending) < Len(old.pending) /\ new.lastCallback = "error") =>
                   /\ new.center = old.center
                   /\ new.zoom = old.zoom
             /\ ClustersClick(w, <<>>) =>
                   /\ new.center = old.center
                   /\ new.zoom = old.zoom
                   /\ new.pending = old.pending]_vars

\* C9 witness: a query has been answered with an error and the view is where
\* it started.
C9_Witness ==
    \E w \in DOMAIN widgets :
        /\ widgets[w].lastCallback = "error"
        /\ widgets[w].pending = <<>>
        /\ widgets[w].center = <<InitialLongitude, InitialLatitude>>
        /\ widgets[w].zoom = InitialZoom

\* C10: the pointer entering 'clusters' sets the cursor to 'pointer', and once
\* it is 'pointer' no step, the pointer leaving 'clusters' included, resets it.
C10_CursorNeverReset ==
    /\ [](\A w \in DOMAIN widgets :
            widgets[w].hover = "clusters" => widgets[w].cursor = "pointer")
    /\ [][\A w \in DOMAIN widgets :
            widgets[w].cursor = "pointer" => widgets'[w].cursor = "pointer"]_vars

\* C10 witness: the pointer has entered 'clusters' and left again, and the
\* cursor is still 'pointer'.
C10_Witness ==
    \E w \in DOMAIN widgets :
        /\ widgets[w].cursor = "pointer"
        /\ widgets[w].hover = ""

====
